---- MODULE Spec2Model ----
(***************************************************************************)
(* Model of the btc-broadcast-service (src/src/main.rs): the startup       *)
(* sequence of main(), the POST /broadcast handler and the two RPC calls   *)
(* it makes through the shared bitcoincore_rpc client.                     *)
(*                                                                         *)
(* Strings that the code transforms are modelled by what the code does to  *)
(* them: a network name is a sequence of ASCII codes (to_lowercase acts on *)
(* every code), an error text is a sequence of words (format! prepends the *)
(* words of its literal).  Option<T> is <<>> (None) or <<v>> (Some(v)).    *)
(***************************************************************************)
EXTENDS Integers, Sequences, FiniteSets

\* ---------------------------------------------------------------- bounds
NumRequests == 2
MaxHeight == 1

Requests == 1..NumRequests

\* ------------------------------------------------------- Option / Result
None == <<>>
Some(v) == <<v>>
IsSome(o) == o # <<>>
Unwrap(o) == o[1]

Ok(v) == [ok |-> TRUE, val |-> v]
Err(e) == [ok |-> FALSE, err |-> e]

\* --------------------------------------------------- network name parsing
\* ASCII codes of the command-line values of --network that are explored.
NameBitcoin == <<98, 105, 116, 99, 111, 105, 110>>
NameTestnet == <<116, 101, 115, 116, 110, 101, 116>>
NameRegtest == <<114, 101, 103, 116, 101, 115, 116>>
NameSignet == <<115, 105, 103, 110, 101, 116>>
NameRegtestCapital == <<82, 101, 103, 116, 101, 115, 116>>
NameMoonnet == <<109, 111, 111, 110, 110, 101, 116>>
NameMain == <<109, 97, 105, 110>>

NetworkArgs ==
    {NameBitcoin, NameTestnet, NameRegtest, NameSignet,
     NameRegtestCapital, NameMoonnet, NameMain}

ToLowerChar(c) == IF c \in 65..90 THEN c + 32 ELSE c

ToLowercase(s) == [i \in 1..Len(s) |-> ToLowerChar(s[i])]

\* A plausible slip: an unknown name falls back to the default network.
ParseNetworkDefaulting(name) ==
    LET l == ToLowercase(name) IN
    IF l = NameBitcoin THEN Some("Bitcoin")
    ELSE IF l = NameTestnet THEN Some("Testnet")
    ELSE IF l = NameSignet THEN Some("Signet")
    ELSE Some("Regtest")

\* match args.network.to_lowercase().as_str() { ... }; None is the `_` arm.
ParseNetwork(name) ==
    LET l == ToLowercase(name) IN
    IF l = NameBitcoin THEN Some("Bitcoin")
    ELSE IF l = NameTestnet THEN Some("Testnet")
    ELSE IF l = NameRegtest THEN Some("Regtest")
    ELSE IF l = NameSignet THEN Some("Signet")
    ELSE None

\* match config.network { ... } of BroadcastService::new
RpcPort(network) ==
    CASE network = "Bitcoin" -> 8332
      [] network = "Testnet" -> 18332
      [] network = "Regtest" -> 18443
      [] network = "Signet" -> 38332

BitcoinUrl == "http://127.0.0.1"

\* ------------------------------------------------------------ RPC backend
TxidLen == 32

\* Two ids as the backend reports them (internal byte order); the first is
\* 0x01, 0x02, ..., 0x20.
TxidA == [i \in 1..TxidLen |-> i]
TxidB == [i \in 1..TxidLen |-> (7 * i + 3) % 256]
Txids == {TxidA, TxidB}

RawTxs == {"0200aa", "0200bb"}

\* Error values of the RPC client; `text` is what Display writes.
ConnectionRefused == [kind |-> "transport", text |-> <<"connection", "refused">>]
TimedOut == [kind |-> "transport", text |-> <<"timed", "out">>]
TxRejected == [kind |-> "rpc", text |-> <<"bad-txns-inputs-missingorspent">>]
AlreadyInChain == [kind |-> "rpc", text |-> <<"transaction", "already", "in", "block", "chain">>]

HeightErrors == {ConnectionRefused, TimedOut}
SubmitErrors == {TxRejected, AlreadyInChain}

\* e.to_string() / "{}" of an error value
ToString(e) == e.text

\* ---------------------------------------------------- BroadcastService
ReverseNot(bytes) == bytes

\* bytes.reverse()
Reverse(bytes) == [i \in 1..Len(bytes) |-> bytes[Len(bytes) + 1 - i]]

\* Result of BroadcastService::broadcast_transaction given the RPC result
ServiceBroadcast(rpc_result) ==
    IF rpc_result.ok THEN Ok(Reverse(rpc_result.val)) ELSE rpc_result

\* Result of BroadcastService::get_current_block_height given the RPC result
ServiceHeight(rpc_result) == rpc_result

\* ------------------------------------------------------ response shaping
HeightErrorPrefix == <<"Failed", "to", "get", "current", "block", "height:">>

HeightErrorMessageBare(e) == ToString(e)

\* format!("Failed to get current block height: {}", e)
HeightErrorMessage(e) == HeightErrorPrefix \o ToString(e)

HeightErrorResponseStale(e) ==
    [http |-> 500, status |-> "error", txid |-> None,
     current_block |-> 1, error |-> Some(HeightErrorMessage(e))]

\* The response of the Err arm of the height lookup
HeightErrorResponse(e) ==
    [http |-> 500, status |-> "error", txid |-> None,
     current_block |-> 0, error |-> Some(HeightErrorMessage(e))]

SuccessResponseWithError(txid, height) ==
    [http |-> 200, status |-> "success", txid |-> Some(txid),
     current_block |-> height, error |-> Some(<<"ok">>)]

\* The response of the Ok arm of the submit
SuccessResponse(txid, height) ==
    [http |-> 200, status |-> "success", txid |-> Some(txid),
     current_block |-> height, error |-> None]

SubmitErrorResponseZero(e, height) ==
    [http |-> 500, status |-> "error", txid |-> None,
     current_block |-> 0, error |-> Some(ToString(e))]

SubmitErrorResponseOk(e, height) ==
    [http |-> 200, status |-> "error", txid |-> None,
     current_block |-> height, error |-> Some(ToString(e))]

\* The response of the Err arm of the submit
SubmitErrorResponse(e, height) ==
    [http |-> 500, status |-> "error", txid |-> None,
     current_block |-> height, error |-> Some(ToString(e))]

\* ------------------------------------------------------- handler control
AfterHeightErrFallThrough == "submit"

\* Where the handler goes after the Err arm of the height lookup (`return`)
AfterHeightErr == "done"

AfterSubmitErrRetry == "submit"

\* Where the handler goes after the Err arm of the submit
AfterSubmitErr == "done"

StoreHeightShared(cb, r, h) == [q \in DOMAIN cb |-> h]

\* `let current_block = ...`: a binding local to one invocation
StoreHeight(cb, r, h) == [cb EXCEPT ![r] = h]

\* ------------------------------------------------------------------ state
VARIABLES
    args_network,    \* Args.network as given on the command line
    main_pc,         \* position of main()
    network,         \* Option<Network> parsed from args_network
    service,         \* Option<BroadcastService>, shared by all handlers
    bound,           \* the HTTP listener is bound
    chain_height,    \* block count of the node behind the RPC endpoint
    pc,              \* position of the handler invocation of each request
    req,             \* Option<BroadcastRequest> of each request
    current_block,   \* the handler's local current_block
    resp,            \* Option<response> written by the handler
    height_result,   \* what get_current_block_height returned to the request
    submit_result,   \* what the RPC send_raw_transaction returned to the request
    calls            \* the RPC calls issued by the handler of each request

vars ==
    <<args_network, main_pc, network, service, bound, chain_height, pc, req,
      current_block, resp, height_result, submit_result, calls>>

mainVars == <<args_network, main_pc, network, service, bound>>

reqVars == <<pc, req, current_block, resp, height_result, submit_result, calls>>

Init ==
    /\ args_network \in NetworkArgs
    /\ main_pc = "parse_network"
    /\ network = None
    /\ service = None
    /\ bound = FALSE
    /\ chain_height \in 0..MaxHeight
    /\ pc = [r \in Requests |-> "idle"]
    /\ req = [r \in Requests |-> None]
    /\ current_block = [r \in Requests |-> 0]
    /\ resp = [r \in Requests |-> None]
    /\ height_result = [r \in Requests |-> None]
    /\ submit_result = [r \in Requests |-> None]
    /\ calls = [r \in Requests |-> <<>>]

\* ---------------------------------------------------------------- main()
\* Parse network from string; the `_` arm logs and returns Ok(()).
MainParseNetwork ==
    /\ main_pc = "parse_network"
    /\ network' = ParseNetwork(args_network)
    /\ main_pc' = IF IsSome(ParseNetwork(args_network))
                  THEN "create_service" ELSE "exited_unsupported"
    /\ UNCHANGED <<args_network, service, bound, chain_height>>
    /\ UNCHANGED reqVars

\* BroadcastService::new(&config).expect(...): Client::new may fail, and
\* then expect panics.
MainCreateService ==
    /\ main_pc = "create_service"
    /\ \E built \in BOOLEAN :
         IF built
         THEN /\ service' = Some([bitcoin_client |->
                     [url |-> BitcoinUrl, port |-> RpcPort(Unwrap(network))]])
              /\ main_pc' = "bind"
         ELSE /\ service' = service
              /\ main_pc' = "panicked"
    /\ UNCHANGED <<args_network, network, bound, chain_height>>
    /\ UNCHANGED reqVars

\* HttpServer::new(...).bind(&bind_address)?.run()
MainBindAndRun ==
    /\ main_pc = "bind"
    /\ \E bind_ok \in BOOLEAN :
         IF bind_ok
         THEN /\ bound' = TRUE
              /\ main_pc' = "serving"
         ELSE /\ bound' = bound
              /\ main_pc' = "bind_failed"
    /\ UNCHANGED <<args_network, network, service, chain_height>>
    /\ UNCHANGED reqVars

\* ------------------------------------------------------------ the backend
\* The node connects a new block.
BackendMine ==
    /\ chain_height < MaxHeight
    /\ chain_height' = chain_height + 1
    /\ UNCHANGED mainVars
    /\ UNCHANGED reqVars

\* ------------------------------------------------------------ the handler
\* A POST /broadcast arrives and the server dispatches it to the handler.
Receive(r) ==
    /\ main_pc = "serving"
    /\ pc[r] = "idle"
    /\ \E raw \in RawTxs : req' = [req EXCEPT ![r] = Some([raw_tx |-> raw])]
    /\ pc' = [pc EXCEPT ![r] = "get_height"]
    /\ UNCHANGED mainVars
    /\ UNCHANGED <<chain_height, current_block, resp, height_result,
                   submit_result, calls>>

\* let current_block = match service.get_current_block_height() { ... }
GetHeight(r) ==
    /\ pc[r] = "get_height"
    /\ IsSome(service)
    /\ calls' = [calls EXCEPT ![r] = Append(@, [method |-> "getblockcount"])]
    /\ \E rpc \in {Ok(chain_height)} \cup {Err(e) : e \in HeightErrors} :
         LET res == ServiceHeight(rpc) IN
         /\ height_result' = [height_result EXCEPT ![r] = Some(res)]
         /\ IF res.ok
            THEN /\ current_block' = StoreHeight(current_block, r, res.val)
                 /\ pc' = [pc EXCEPT ![r] = "submit"]
                 /\ resp' = resp
            ELSE /\ current_block' = current_block
                 /\ pc' = [pc EXCEPT ![r] = AfterHeightErr]
                 /\ resp' = [resp EXCEPT ![r] = Some(HeightErrorResponse(res.err))]
    /\ UNCHANGED mainVars
    /\ UNCHANGED <<chain_height, req, submit_result>>

\* match service.broadcast_transaction(&req.raw_tx) { ... }
Submit(r) ==
    /\ pc[r] = "submit"
    /\ IsSome(service)
    /\ calls' = [calls EXCEPT ![r] =
                   Append(@, [method |-> "sendrawtransaction",
                              raw_tx |-> Unwrap(req[r]).raw_tx])]
    /\ \E rpc \in {Ok(t) : t \in Txids} \cup {Err(e) : e \in SubmitErrors} :
         LET res == ServiceBroadcast(rpc) IN
         /\ submit_result' = [submit_result EXCEPT ![r] = Some(rpc)]
         /\ IF res.ok
            THEN /\ resp' = [resp EXCEPT ![r] =
                               Some(SuccessResponse(res.val, current_block[r]))]
                 /\ pc' = [pc EXCEPT ![r] = "done"]
            ELSE /\ resp' = [resp EXCEPT ![r] =
                               Some(SubmitErrorResponse(res.err, current_block[r]))]
                 /\ pc' = [pc EXCEPT ![r] = AfterSubmitErr]
    /\ UNCHANGED mainVars
    /\ UNCHANGED <<chain_height, req, current_block, height_result>>

\* The response has been written; the invocation and its locals are gone.
Complete(r) ==
    /\ pc[r] = "done"
    /\ pc' = [pc EXCEPT ![r] = "idle"]
    /\ req' = [req EXCEPT ![r] = None]
    /\ current_block' = [current_block EXCEPT ![r] = 0]
    /\ resp' = [resp EXCEPT ![r] = None]
    /\ height_result' = [height_result EXCEPT ![r] = None]
    /\ submit_result' = [submit_result EXCEPT ![r] = None]
    /\ calls' = [calls EXCEPT ![r] = <<>>]
    /\ UNCHANGED mainVars
    /\ UNCHANGED chain_height

Next ==
    \/ MainParseNetwork
    \/ MainCreateService
    \/ MainBindAndRun
    \/ BackendMine
    \/ \E r \in Requests : Receive(r)
    \/ \E r \in Requests : GetHeight(r)
    \/ \E r \in Requests : Submit(r)
    \/ \E r \in Requests : Complete(r)

Spec == Init /\ [][Next]_vars

\* ================================================================ claims
HeightOk(r) == IsSome(height_result[r]) /\ Unwrap(height_result[r]).ok
HeightFailed(r) == IsSome(height_result[r]) /\ ~Unwrap(height_result[r]).ok
SubmitOk(r) == IsSome(submit_result[r]) /\ Unwrap(submit_result[r]).ok
SubmitFailed(r) == IsSome(submit_result[r]) /\ ~Unwrap(submit_result[r]).ok
Responded(r) == pc[r] = "done" /\ IsSome(resp[r])
Body(r) == Unwrap(resp[r])

\* C1: when the height lookup succeeds and the backend accepts the raw
\* transaction and reports the 32-byte id b, the response carries b with its
\* bytes in reverse order, the height of the request's own lookup, status
\* "success" and no error.
C1_SuccessCarriesReversedTxid ==
    \A r \in Requests :
        (pc[r] = "done" /\ HeightOk(r) /\ SubmitOk(r)) =>
            LET b == Unwrap(submit_result[r]).val
                h == Unwrap(height_result[r]).val
            IN  /\ IsSome(resp[r])
                /\ Body(r).status = "success"
                /\ Body(r).error = None
                /\ IsSome(Body(r).txid)
                /\ Len(Unwrap(Body(r).txid)) = TxidLen
                /\ \A i \in 1..TxidLen :
                       Unwrap(Body(r).txid)[i] = b[TxidLen + 1 - i]
                /\ Body(r).current_block = h

C1_Witness ==
    \E r \in Requests :
        /\ Responded(r) /\ HeightOk(r) /\ SubmitOk(r)
        /\ Unwrap(submit_result[r]).val = TxidA
        /\ Unwrap(height_result[r]).val >= 1

\* C2: in every response of the handler, status is "success" exactly when
\* txid is present and error absent, status is "error" exactly when txid is
\* absent and error present, and txid and error are never both present or
\* both absent.
C2_StatusTxidErrorExclusive ==
    \A r \in Requests :
        IsSome(resp[r]) =>
            /\ Body(r).status \in {"success", "error"}
            /\ (Body(r).status = "success")
                   <=> (IsSome(Body(r).txid) /\ Body(r).error = None)
            /\ (Body(r).status = "error")
                   <=> (Body(r).txid = None /\ IsSome(Body(r).error))
            /\ ~(IsSome(Body(r).txid) /\ IsSome(Body(r).error))
            /\ ~(Body(r).txid = None /\ Body(r).error = None)

C2_Witness ==
    \E r, q \in Requests :
        /\ Responded(r) /\ Body(r).status = "success"
        /\ Responded(q) /\ Body(q).status = "error" /\ HeightFailed(q)

\* C3: when the height lookup fails, the response has current_block 0, no
\* txid, status "error" and HTTP 500, and the submit is never consulted.
C3_HeightFailureResponse ==
    \A r \in Requests :
        (pc[r] = "done" /\ HeightFailed(r)) =>
            /\ IsSome(resp[r])
            /\ Body(r).current_block = 0
            /\ Body(r).txid = None
            /\ Body(r).status = "error"
            /\ Body(r).http = 500
            /\ submit_result[r] = None

C3_Witness ==
    \E r \in Requests :
        /\ Responded(r) /\ HeightFailed(r)
        /\ Unwrap(height_result[r]).err = TimedOut
        /\ chain_height >= 1

\* C4: when the height lookup returns h and the submit fails, the response
\* has current_block h, no txid, the text of the submit failure as error,
\* status "error" and HTTP 500.
C4_SubmitFailureKeepsHeight ==
    \A r \in Requests :
        (pc[r] = "done" /\ HeightOk(r) /\ SubmitFailed(r)) =>
            /\ IsSome(resp[r])
            /\ Body(r).current_block = Unwrap(height_result[r]).val
            /\ Body(r).txid = None
            /\ Body(r).error = Some(Unwrap(submit_result[r]).err.text)
            /\ Body(r).status = "error"
            /\ Body(r).http = 500

C4_Witness ==
    \E r \in Requests :
        /\ Responded(r) /\ HeightOk(r) /\ SubmitFailed(r)
        /\ Unwrap(submit_result[r]).err = AlreadyInChain
        /\ Unwrap(height_result[r]).val >= 1

\* C5 as stated: when the height lookup fails with error text E, the error
\* field of the response is E itself.
C5_ErrorIsBackendText ==
    \A r \in Requests :
        (pc[r] = "done" /\ HeightFailed(r)) =>
            /\ IsSome(resp[r])
            /\ Body(r).error = Some(Unwrap(height_result[r]).err.text)

\* C5 amended: when the height lookup fails with error text E, the error
\* field of the response is "Failed to get current block height: " followed
\* by E; the rest of the response is status "error", no txid,
\* current_block 0, HTTP 500.
C5_ErrorIsPrefixedBackendText ==
    \A r \in Requests :
        (pc[r] = "done" /\ HeightFailed(r)) =>
            /\ IsSome(resp[r])
            /\ Body(r).error =
                   Some(<<"Failed", "to", "get", "current", "block", "height:">>
                            \o Unwrap(height_result[r]).err.text)
            /\ Body(r).status = "error"
            /\ Body(r).txid = None
            /\ Body(r).current_block = 0
            /\ Body(r).http = 500

C5_Witness ==
    \E r \in Requests :
        /\ Responded(r) /\ HeightFailed(r)
        /\ Unwrap(height_result[r]).err = ConnectionRefused

\* C6: the HTTP status code of a handler response is 200 exactly when the
\* broadcast succeeded (body status "success") and 500 exactly when the
\* height lookup or the submit failed (body status "error"); there is no
\* other code.
C6_HttpCodeMatchesStatus ==
    \A r \in Requests :
        IsSome(resp[r]) =>
            /\ Body(r).http \in {200, 500}
            /\ (Body(r).http = 200) <=> (Body(r).status = "success")
            /\ (Body(r).http = 500) <=> (Body(r).status = "error")
            /\ (Body(r).http = 200) <=> (HeightOk(r) /\ SubmitOk(r))
            /\ (Body(r).http = 500) <=> (HeightFailed(r) \/ SubmitFailed(r))

C6_Witness ==
    \E r, q \in Requests :
        /\ Responded(r) /\ Body(r).http = 200
        /\ Responded(q) /\ Body(q).http = 500 /\ SubmitFailed(q)

\* C7 as stated: every handled request has issued exactly two RPC calls,
\* the height lookup and then the submit.
C7_AlwaysTwoCalls ==
    \A r \in Requests :
        pc[r] = "done" =>
            /\ Len(calls[r]) = 2
            /\ calls[r][1].method = "getblockcount"
            /\ calls[r][2].method = "sendrawtransaction"

\* C7 amended: a request issues at most two RPC calls, the height lookup
\* first and the submit second; the height lookup occurs in every handled
\* request, the submit occurs exactly when the height lookup succeeded and
\* only after it has returned, and no third call is made.
C7_HeightThenSubmitIfHeightOk ==
    \A r \in Requests :
        /\ Len(calls[r]) <= 2
        /\ Len(calls[r]) >= 1 =>
               /\ calls[r][1].method = "getblockcount"
               /\ IsSome(height_result[r])
        /\ Len(calls[r]) = 2 =>
               /\ calls[r][2].method = "sendrawtransaction"
               /\ HeightOk(r)
        /\ pc[r] = "done" =>
               /\ Len(calls[r]) >= 1
               /\ (Len(calls[r]) = 2) <=> HeightOk(r)

C7_Witness ==
    \E r, q \in Requests :
        /\ Responded(r) /\ HeightFailed(r) /\ Len(calls[r]) = 1
        /\ Responded(q) /\ HeightOk(q) /\ Len(calls[q]) = 2

CallCount(r, m) == Cardinality({i \in 1..Len(calls[r]) : calls[r][i].method = m})

\* C8: within one request the height lookup is invoked at most once and the
\* submit at most once, and once a call has returned an error the handler
\* has responded without a further RPC call: the failed call is its last.
C8_NoRetry ==
    \A r \in Requests :
        /\ CallCount(r, "getblockcount") <= 1
        /\ CallCount(r, "sendrawtransaction") <= 1
        /\ HeightFailed(r) =>
               /\ pc[r] = "done"
               /\ calls[r][Len(calls[r])].method = "getblockcount"
        /\ SubmitFailed(r) =>
               /\ pc[r] = "done"
               /\ calls[r][Len(calls[r])].method = "sendrawtransaction"

C8_Witness ==
    \E r \in Requests :
        /\ Responded(r) /\ SubmitFailed(r)
        /\ Unwrap(submit_result[r]).err = TxRejected
        /\ CallCount(r, "sendrawtransaction") = 1

\* The response that the results of a request's own two calls determine.
OwnOutcome(hres, sopt) ==
    IF ~hres.ok
    THEN [http |-> 500, status |-> "error", txid |-> None, current_block |-> 0,
          error |-> Some(<<"Failed", "to", "get", "current", "block", "height:">>
                             \o hres.err.text)]
    ELSE IF Unwrap(sopt).ok
    THEN [http |-> 200, status |-> "success",
          txid |-> Some([i \in 1..TxidLen |-> Unwrap(sopt).val[TxidLen + 1 - i]]),
          current_block |-> hres.val, error |-> None]
    ELSE [http |-> 500, status |-> "error", txid |-> None,
          current_block |-> hres.val, error |-> Some(Unwrap(sopt).err.text)]

OwnResultsOnly ==
    \A r \in Requests :
        /\ pc[r] = "done" =>
               resp[r] = Some(OwnOutcome(Unwrap(height_result[r]), submit_result[r]))
        /\ \A i \in 1..Len(calls[r]) :
               calls[r][i].method = "sendrawtransaction" =>
                   calls[r][i].raw_tx = Unwrap(req[r]).raw_tx

\* C9: under every interleaving, the response of a request is the one its
\* own height and submit results determine, its submit carries its own raw
\* transaction, a step of one request leaves every other request's request,
\* locals, results and response untouched, and no step of a handler changes
\* the shared service.
C9_RequestsIndependent ==
    [][ /\ OwnResultsOnly'
        /\ \A r \in Requests :
               pc'[r] # pc[r] =>
                   /\ \A q \in Requests \ {r} :
                          /\ req'[q] = req[q]
                          /\ current_block'[q] = current_block[q]
                          /\ resp'[q] = resp[q]
                          /\ height_result'[q] = height_result[q]
                          /\ submit_result'[q] = submit_result[q]
                          /\ calls'[q] = calls[q]
                          /\ pc'[q] = pc[q]
                   /\ service' = service
                   /\ network' = network
                   /\ bound' = bound
      ]_vars

C9_Witness ==
    \E r, q \in Requests :
        /\ r # q
        /\ Responded(r) /\ HeightOk(r) /\ SubmitOk(r)
        /\ Responded(q) /\ HeightOk(q) /\ SubmitOk(q)
        /\ Unwrap(height_result[r]).val # Unwrap(height_result[q]).val
        /\ Unwrap(req[r]).raw_tx # Unwrap(req[q]).raw_tx
        /\ Unwrap(submit_result[r]).val # Unwrap(submit_result[q]).val

SupportedNames == {NameBitcoin, NameTestnet, NameRegtest, NameSignet}

FixedPort(name) ==
    IF name = NameBitcoin THEN 8332
    ELSE IF name = NameTestnet THEN 18332
    ELSE IF name = NameRegtest THEN 18443
    ELSE 38332

\* C10: with a network name that is not one of the four supported names
\* (compared in lower case) main() ends at the network match, before the
\* RPC client is built and before any port is bound, and no request is ever
\* handled; with a supported name main() passes the match, the client is
\* built for the fixed RPC port of that network, and serving means bound
\* with that client.
C10_UnsupportedNetworkFailsFast ==
    /\ ToLowercase(args_network) \notin SupportedNames =>
           /\ main_pc \in {"parse_network", "exited_unsupported"}
           /\ service = None
           /\ ~bound
           /\ \A r \in Requests : pc[r] = "idle" /\ calls[r] = <<>>
    /\ ToLowercase(args_network) \in SupportedNames =>
           /\ main_pc # "exited_unsupported"
           /\ IsSome(service) =>
                  Unwrap(service).bitcoin_client.port =
                      FixedPort(ToLowercase(args_network))
    /\ main_pc = "serving" =>
           /\ ToLowercase(args_network) \in SupportedNames
           /\ bound
           /\ IsSome(service)
    /\ (\E r \in Requests : pc[r] # "idle") => main_pc = "serving"

C10_Witness ==
    /\ main_pc = "exited_unsupported"
    /\ args_network = NameMoonnet

C10_ServingWitness ==
    /\ main_pc = "serving"
    /\ args_network = NameRegtestCapital
    /\ \E r \in Requests : Responded(r)

====
